---- MODULE Spec2Model ----
(***************************************************************************)
(* Model of nsi_auth.py: the /validate request handler, the allowlist      *)
(* held in state.allowed_client_subject_dn, its loader                     *)
(* load_allowed_client_dn, and the two file watchers (watchdog observer    *)
(* and stat polling thread), together with the file system they observe.   *)
(***************************************************************************)
EXTENDS Integers, Sequences, FiniteSets, TLC

\* ------------------------------------------------------------------ bounds

\* Number of changes the environment makes to the file system.
MaxWrites == 2
\* Longest file content (in characters) of the loader-only specification.
MaxFileLen == 5

\* The concurrent request handlers.
Handlers == {"h1", "h2"}
\* The modification timestamps (st_mtime_ns) a file carries.
Timestamps == {1, 2}

\* ------------------------------------------------------------ text of files

\* Characters a file is made of; "\n" ends a line.
Chars == {"a", "b", " ", "\t", "\n"}
\* The characters str.strip() removes.
Whitespace == {" ", "\t", "\n"}

\* Iteration over a text file: the lines, each with its trailing "\n"
\* (the last line has none when the file does not end in one).
RECURSIVE SplitLines(_)
SplitLines(s) ==
    IF s = <<>> THEN <<>>
    ELSE LET nl == {i \in 1..Len(s) : s[i] = "\n"}
         IN  IF nl = {} THEN <<s>>
             ELSE LET i == CHOOSE k \in nl : \A j \in nl : k <= j
                  IN  <<SubSeq(s, 1, i)>> \o SplitLines(SubSeq(s, i + 1, Len(s)))

RECURSIVE LStrip(_)
LStrip(l) == IF l # <<>> /\ Head(l) \in Whitespace THEN LStrip(Tail(l)) ELSE l

RECURSIVE RStrip(_)
RStrip(l) ==
    IF l # <<>> /\ l[Len(l)] \in Whitespace
    THEN RStrip(SubSeq(l, 1, Len(l) - 1))
    ELSE l

\* Variant: only leading whitespace is removed.
StripLeadingOnly(l) == LStrip(l)

\* str.strip()
Strip(l) == RStrip(LStrip(l))

\* [line.strip() for line in f if line.strip()]
ParseFile(content) ==
    LET lines == SplitLines(content)
        stripped == [i \in 1..Len(lines) |-> Strip(lines[i])]
    IN  SelectSeq(stripped, LAMBDA x : x # <<>>)

\* ---------------------------------------------------------------- settings

\* settings.allowed_client_subject_dn_path, another spelling of the same
\* file, another file of the same directory, and the directory itself.
TargetPath == "/config/allowed_client_dn.txt"
AliasPath == "/config/../config/allowed_client_dn.txt"
OtherPath == "/config/other.txt"
DirPath == "/config"

\* Variant: paths are compared as they are spelled.
ResolveNothing(p) == p

\* Path.resolve()
Resolve(p) == IF p = AliasPath THEN TargetPath ELSE p

\* event_filter=[FileModifiedEvent]
EventFilter == {"FileModifiedEvent"}

\* ------------------------------------------------------------ sample inputs

\* Contents the environment writes to the allowlist file.
InitialFile == <<" ", "a", "b", "\t", "\n", "\n", "a", "\n">>
SampleFiles ==
    { <<>>,
      InitialFile,
      <<"a", "\n", "a", "b">>,
      <<"a", "\n", "a", "b", "\n", "a", "\n">> }

\* request.headers.get(...): None when the header is absent.
None == <<"None">>
Headers == {None, <<>>, <<"a">>, <<"b">>}

\* Every file content of at most MaxFileLen characters.
AllFiles == UNION {[1..n -> Chars] : n \in 0..MaxFileLen}

\* ---------------------------------------------------------------- variables

VARIABLES
    use_watchdog,     \* settings.use_watchdog
    main_pc,          \* "boot" while the module is imported, then "serving"
    file,             \* the allowlist file: [status, content, mtime]
    nwrites,          \* changes made by the environment so far
    state_allowed,    \* state.allowed_client_subject_dn
    w_pc,             \* position of the watch() thread
    last_modified,    \* watch()'s local last_modified
    max_observed,     \* the largest st_mtime_ns a stat() of watch() returned
    last_check,       \* how the latest pass of watch()'s try statement went
    events,           \* file system events queued for the observer
    h_pc,             \* position of each request handler in validate()
    h_dn,             \* the header value of the request being handled
    h_snap,           \* the list object the handler read from state
    h_resp,           \* the response the handler returned
    published,        \* the complete list the latest replace installed
    ever_published,   \* every complete list a replace installed so far
    last_load,        \* outcome of the latest load_allowed_client_dn call
    unseen_change     \* the file changed after the latest load read it

vars == <<use_watchdog, main_pc, file, nwrites, state_allowed, w_pc,
          last_modified, max_observed, last_check, events, h_pc, h_dn, h_snap, h_resp, published,
          ever_published, last_load, unseen_change>>

handler_vars == <<h_pc, h_dn, h_snap, h_resp>>
watcher_vars == <<w_pc, last_modified, max_observed, last_check, events>>
store_vars == <<state_allowed, published, ever_published, last_load>>

\* --------------------------------------------------------------- the loader

\* The try block of load_allowed_client_dn raises: open() fails for a file
\* that is missing or may not be opened, the read fails for content that is
\* no text.
ReadRaises(f) == f.status # "ok"

\* What load_allowed_client_dn writes to the log: an error, "load <n> DN",
\* or nothing.
\* Variant: every successful load assigns and logs, equal list or not.
LoadLogAlways(f, cur) ==
    IF ReadRaises(f) THEN "error" ELSE "load"

LoadLog(f, cur) ==
    IF ReadRaises(f) THEN "error"
    ELSE IF cur # ParseFile(f.content) THEN "load" ELSE "none"

\* Variant: a failed load leaves an empty list behind.
LoadBlankOnError(f, cur) ==
    IF ReadRaises(f) THEN <<>>
    ELSE ParseFile(f.content)

\* Variant: the shared list object is extended in place.
LoadExtendInPlace(f, cur) ==
    IF ReadRaises(f) THEN cur
    ELSE IF cur # ParseFile(f.content) THEN cur \o ParseFile(f.content) ELSE cur

\* Variant: the new list is installed only when its set of members differs.
LoadIfSetDiffers(f, cur) ==
    IF ReadRaises(f) THEN cur
    ELSE LET new == ParseFile(f.content)
         IN  IF {cur[i] : i \in DOMAIN cur} # {new[i] : i \in DOMAIN new}
             THEN new
             ELSE cur

\* Variant: the last line of the file is left out of the new list.
LoadWithoutLastLine(f, cur) ==
    IF ReadRaises(f) THEN cur
    ELSE LET new == ParseFile(f.content)
         IN  IF cur # new
             THEN SubSeq(new, 1, Len(new) - 1)
             ELSE cur

\* load_allowed_client_dn: the value of state.allowed_client_subject_dn
\* after the call, given its value before.
load_allowed_client_dn(f, cur) ==
    IF ReadRaises(f) THEN cur
    ELSE LET new_allowed_client_subject_dn == ParseFile(f.content)
         IN  IF cur # new_allowed_client_subject_dn
             THEN new_allowed_client_subject_dn
             ELSE cur

\* One call of load_allowed_client_dn(filepath).
Load ==
    /\ state_allowed' = load_allowed_client_dn(file, state_allowed)
    /\ last_load' = LoadLog(file, state_allowed)
    /\ published' = IF LoadLog(file, state_allowed) = "load"
                    THEN ParseFile(file.content)
                    ELSE published
    /\ ever_published' = ever_published \cup {published'}
    /\ unseen_change' = FALSE

\* ------------------------------------------------------------------ validate

Forbidden == <<"Forbidden", 403>>
OkResponse == <<"OK", 200>>
NoResponse == <<"", 0>>
ServerError == <<"Internal Server Error", 500>>

\* `not (dn := request.headers.get(...))`: absent or empty.
HeaderMissing(dn) == dn = None \/ dn = <<>>

\* Variant: a request without identity is let through.
MissingHeaderFailOpen == OkResponse

\* The response to a request without identity header.
MissingHeaderResponse == Forbidden

\* Variant: the list read when the module was imported is kept.
ListAtImport == <<>>

\* The list object validate() reads from state.
CurrentList == state_allowed

\* Variant: an identity matches when it occurs inside an allowed DN.
MemberBySubstring(dn, snap) ==
    \E i \in 1..Len(snap) : \E j \in 1..Len(snap[i]) :
        j + Len(dn) - 1 <= Len(snap[i])
        /\ SubSeq(snap[i], j, j + Len(dn) - 1) = dn

\* `dn in state.allowed_client_subject_dn`
Member(dn, snap) == \E i \in 1..Len(snap) : snap[i] = dn

\* Variant: an empty allowlist is reported as a server error.
RespondErrorWhenEmpty(dn, snap) ==
    IF snap = <<>> THEN ServerError
    ELSE IF ~Member(dn, snap) THEN Forbidden ELSE OkResponse

\* The response to a request that carries an identity.
Respond(dn, snap) == IF ~Member(dn, snap) THEN Forbidden ELSE OkResponse

\* ---------------------------------------------------------------- the state

FileStatus == {"ok", "missing", "unreadable", "undecodable", "stat_denied"}

Init ==
    /\ use_watchdog \in BOOLEAN
    /\ main_pc = "boot"
    /\ file = [status |-> "ok", content |-> InitialFile, mtime |-> 1]
    /\ nwrites = 0
    /\ state_allowed = <<>>
    /\ w_pc = "off"
    /\ last_modified = 0
    /\ max_observed = 0
    /\ last_check = "none"
    /\ events = <<>>
    /\ h_pc = [h \in Handlers |-> "idle"]
    /\ h_dn = [h \in Handlers |-> None]
    /\ h_snap = [h \in Handlers |-> <<>>]
    /\ h_resp = [h \in Handlers |-> NoResponse]
    /\ published = <<>>
    /\ ever_published = {<<>>}
    /\ last_load = "never"
    /\ unseen_change = FALSE

\* ------------------------------------------------------------ the file system

\* The observer, once started, is told of what happens in the directory.
Emit(evs) ==
    events' = IF use_watchdog /\ main_pc = "serving" THEN events \o evs ELSE events

Event(k, p) == [kind |-> k, src_path |-> p]

\* The file holds another text than before.
Differs(f, g) == g.status = "ok" /\ f.content # g.content

EnvChange(f) ==
    /\ nwrites < MaxWrites
    /\ nwrites' = nwrites + 1
    /\ file' = f
    /\ unseen_change' = (unseen_change \/ Differs(file, f))
    /\ UNCHANGED <<use_watchdog, main_pc, w_pc, last_modified, max_observed, last_check>>
    /\ UNCHANGED <<store_vars, handler_vars>>

\* The file is written in place; the backend reports the path under one of
\* its spellings.
EditInPlace(c, m, p) ==
    /\ file.status \in {"ok", "undecodable"}
    /\ m >= file.mtime
    /\ EnvChange([status |-> "ok", content |-> c, mtime |-> m])
    /\ Emit(<<Event("FileModifiedEvent", p)>>)

\* Another file is renamed over the file; it carries its own timestamp.
\* The backend reports the move under the path the file came from.
ReplaceByRename(c, m) ==
    /\ file.status # "stat_denied"
    /\ EnvChange([status |-> "ok", content |-> c, mtime |-> m])
    /\ Emit(<<Event("FileMovedEvent", OtherPath), Event("DirModifiedEvent", DirPath)>>)

DeleteFile ==
    /\ file.status \in {"ok", "unreadable", "undecodable"}
    /\ EnvChange([status |-> "missing", content |-> <<>>, mtime |-> 0])
    /\ Emit(<<Event("FileDeletedEvent", TargetPath)>>)

\* Bytes that are no text are written to the file.
WriteGarbage(m) ==
    /\ file.status = "ok"
    /\ m >= file.mtime
    /\ EnvChange([status |-> "undecodable", content |-> <<>>, mtime |-> m])
    /\ Emit(<<Event("FileModifiedEvent", TargetPath)>>)

\* The permission to read the file is taken away or given back.
Chmod ==
    /\ file.status \in {"ok", "unreadable"}
    /\ EnvChange([file EXCEPT !.status = IF @ = "ok" THEN "unreadable" ELSE "ok"])
    /\ Emit(<<Event("FileModifiedEvent", TargetPath)>>)

\* The permission to search the directory is taken away or given back.
ChmodDir ==
    /\ file.status \in {"ok", "stat_denied"}
    /\ EnvChange([file EXCEPT !.status = IF @ = "ok" THEN "stat_denied" ELSE "ok"])
    /\ Emit(<<>>)

\* Another file of the directory is written.
TouchOther ==
    /\ use_watchdog /\ main_pc = "serving"
    /\ EnvChange(file)
    /\ Emit(<<Event("FileModifiedEvent", OtherPath)>>)

\* -------------------------------------------------------------------- startup

\* use_watchdog: watchdog_file() builds the FileChangeHandler, whose
\* __init__ loads the file, and starts the observer.
SetupWatchdog ==
    /\ main_pc = "boot" /\ use_watchdog
    /\ Load
    /\ main_pc' = "serving"
    /\ UNCHANGED <<use_watchdog, file, nwrites, watcher_vars, handler_vars>>

\* otherwise: watch_file() starts the watch() thread and returns.
SetupPolling ==
    /\ main_pc = "boot" /\ ~use_watchdog
    /\ main_pc' = "serving"
    /\ w_pc' = "stat"
    /\ last_modified' = 0
    /\ UNCHANGED <<use_watchdog, file, nwrites, max_observed, last_check, events, unseen_change>>
    /\ UNCHANGED <<store_vars, handler_vars>>

\* ------------------------------------------------------------------- watchdog

\* on_modified calls the callback for this event.
Triggers(e) ==
    /\ e.kind \in EventFilter
    /\ Resolve(e.src_path) = Resolve(TargetPath)

\* The observer thread takes the next event: the event filter, then
\* on_modified.
Dispatch ==
    /\ events # <<>>
    /\ events' = Tail(events)
    /\ IF Triggers(Head(events))
       THEN Load
       ELSE UNCHANGED <<store_vars, unseen_change>>
    /\ UNCHANGED <<use_watchdog, main_pc, file, nwrites, w_pc, last_modified>>
    /\ UNCHANGED <<max_observed, last_check, handler_vars>>

\* -------------------------------------------------------------------- polling

\* filepath.stat() raises FileNotFoundError, which watch() catches.
StatNotFound(f) == f.status = "missing"
\* filepath.stat() raises another OSError, which watch() does not catch.
StatRaisesOther(f) == f.status = "stat_denied"

\* Variant: any timestamp other than the remembered one counts as a change.
ModifiedDiffers(last, modified) == last # modified

\* `last_modified < modified`
ModifiedSince(last, modified) == last < modified

\* Variant: a file that is not found resets the remembered timestamp.
PollStatForgetsOnError ==
    /\ w_pc = "stat"
    /\ IF StatNotFound(file) THEN
            /\ w_pc' = "wait"
            /\ last_modified' = 0
       ELSE IF StatRaisesOther(file) THEN
            /\ w_pc' = "dead"
            /\ UNCHANGED last_modified
       ELSE IF ModifiedSince(last_modified, file.mtime) THEN
            /\ last_modified' = file.mtime
            /\ w_pc' = "load"
       ELSE
            /\ w_pc' = "wait"
            /\ UNCHANGED last_modified
    /\ max_observed' = IF StatNotFound(file) \/ StatRaisesOther(file)
                       THEN max_observed
                       ELSE IF file.mtime > max_observed THEN file.mtime
                       ELSE max_observed
    /\ last_check' = IF StatNotFound(file) THEN "not found"
                     ELSE IF StatRaisesOther(file) THEN "raised"
                     ELSE "stat"
    /\ UNCHANGED <<use_watchdog, main_pc, file, nwrites, events, unseen_change>>
    /\ UNCHANGED <<store_vars, handler_vars>>

\* One pass of the try statement of watch().
PollStat ==
    /\ w_pc = "stat"
    /\ IF StatNotFound(file) THEN
            /\ w_pc' = "wait"
            /\ UNCHANGED last_modified
       ELSE IF StatRaisesOther(file) THEN
            /\ w_pc' = "dead"
            /\ UNCHANGED last_modified
       ELSE IF ModifiedSince(last_modified, file.mtime) THEN
            /\ last_modified' = file.mtime
            /\ w_pc' = "load"
       ELSE
            /\ w_pc' = "wait"
            /\ UNCHANGED last_modified
    /\ max_observed' = IF StatNotFound(file) \/ StatRaisesOther(file)
                       THEN max_observed
                       ELSE IF file.mtime > max_observed THEN file.mtime
                       ELSE max_observed
    /\ last_check' = IF StatNotFound(file) THEN "not found"
                     ELSE IF StatRaisesOther(file) THEN "raised"
                     ELSE "stat"
    /\ UNCHANGED <<use_watchdog, main_pc, file, nwrites, events, unseen_change>>
    /\ UNCHANGED <<store_vars, handler_vars>>

\* callback(filepath)
PollLoad ==
    /\ w_pc = "load"
    /\ Load
    /\ w_pc' = "wait"
    /\ UNCHANGED <<use_watchdog, main_pc, file, nwrites, last_modified, events>>
    /\ UNCHANGED <<max_observed, last_check, handler_vars>>

\* event.wait(5) returns.
PollWait ==
    /\ w_pc = "wait"
    /\ w_pc' = "stat"
    /\ UNCHANGED <<use_watchdog, main_pc, file, nwrites, last_modified, events>>
    /\ UNCHANGED <<max_observed, last_check, store_vars, unseen_change, handler_vars>>

\* ------------------------------------------------------------------- requests

env_vars == <<use_watchdog, main_pc, file, nwrites, unseen_change>>

\* A request arrives; validate() looks at the header.
ReqReceive(h, dn) ==
    /\ main_pc = "serving"
    /\ h_pc[h] = "idle"
    /\ h_dn' = [h_dn EXCEPT ![h] = dn]
    /\ IF HeaderMissing(dn)
       THEN /\ h_resp' = [h_resp EXCEPT ![h] = MissingHeaderResponse]
            /\ h_pc' = [h_pc EXCEPT ![h] = "done"]
       ELSE /\ h_pc' = [h_pc EXCEPT ![h] = "read"]
            /\ UNCHANGED h_resp
    /\ UNCHANGED h_snap
    /\ UNCHANGED <<env_vars, watcher_vars, store_vars>>

\* validate() reads state.allowed_client_subject_dn.
ReqRead(h) ==
    /\ h_pc[h] = "read"
    /\ h_snap' = [h_snap EXCEPT ![h] = CurrentList]
    /\ h_pc' = [h_pc EXCEPT ![h] = "scan"]
    /\ UNCHANGED <<h_dn, h_resp>>
    /\ UNCHANGED <<env_vars, watcher_vars, store_vars>>

\* validate() searches the list it read and returns.
ReqDecide(h) ==
    /\ h_pc[h] = "scan"
    /\ h_resp' = [h_resp EXCEPT ![h] = Respond(h_dn[h], h_snap[h])]
    /\ h_pc' = [h_pc EXCEPT ![h] = "done"]
    /\ UNCHANGED <<h_dn, h_snap>>
    /\ UNCHANGED <<env_vars, watcher_vars, store_vars>>

\* The response is sent; the handler is free for the next request.
ReqFinish(h) ==
    /\ h_pc[h] = "done"
    /\ h_pc' = [h_pc EXCEPT ![h] = "idle"]
    /\ h_dn' = [h_dn EXCEPT ![h] = None]
    /\ h_snap' = [h_snap EXCEPT ![h] = <<>>]
    /\ h_resp' = [h_resp EXCEPT ![h] = NoResponse]
    /\ UNCHANGED <<env_vars, watcher_vars, store_vars>>

\* ------------------------------------------------------------- specification

Next ==
    \/ \E c \in SampleFiles, m \in Timestamps, p \in {TargetPath, AliasPath} :
          EditInPlace(c, m, p)
    \/ \E c \in SampleFiles, m \in Timestamps : ReplaceByRename(c, m)
    \/ DeleteFile
    \/ \E m \in Timestamps : WriteGarbage(m)
    \/ Chmod
    \/ ChmodDir
    \/ TouchOther
    \/ SetupWatchdog
    \/ SetupPolling
    \/ Dispatch
    \/ PollStat
    \/ PollLoad
    \/ PollWait
    \/ \E h \in Handlers, dn \in Headers : ReqReceive(h, dn)
    \/ \E h \in Handlers : ReqRead(h)
    \/ \E h \in Handlers : ReqDecide(h)
    \/ \E h \in Handlers : ReqFinish(h)

Spec == Init /\ [][Next]_vars

\* The loader alone: one load of a file of any content.
InitLoad ==
    /\ use_watchdog = TRUE
    /\ main_pc = "boot"
    /\ file \in [status : {"ok"}, content : AllFiles, mtime : {1}]
    /\ nwrites = 0
    /\ state_allowed = <<>>
    /\ w_pc = "off"
    /\ last_modified = 0
    /\ max_observed = 0
    /\ last_check = "none"
    /\ events = <<>>
    /\ h_pc = [h \in Handlers |-> "idle"]
    /\ h_dn = [h \in Handlers |-> None]
    /\ h_snap = [h \in Handlers |-> <<>>]
    /\ h_resp = [h \in Handlers |-> NoResponse]
    /\ published = <<>>
    /\ ever_published = {<<>>}
    /\ last_load = "never"
    /\ unseen_change = FALSE

NextLoad == SetupWatchdog

SpecLoad == InitLoad /\ [][NextLoad]_vars

\* --------------------------------------------------------------- properties

Range(s) == {s[i] : i \in DOMAIN s}

\* The handler has searched a list and answered.
Answered(h) == h_pc[h] = "done" /\ h_dn[h] # None /\ h_dn[h] # <<>>

\* C1: a request with a non-empty identity is answered 200 if and only if
\* the identity is an element of the list the handler read from the store,
\* and 403 otherwise.
C1_AllowIffMember ==
    \A h \in Handlers :
        Answered(h) =>
            /\ (h_resp[h][2] = 200 <=> h_dn[h] \in Range(h_snap[h]))
            /\ (h_resp[h][2] = 403 <=> h_dn[h] \notin Range(h_snap[h]))

\* One request allowed and one denied against a non-empty list.
C1_Witness ==
    \E g, h \in Handlers :
        /\ Answered(g) /\ h_resp[g][2] = 200
        /\ Answered(h) /\ h_resp[h][2] = 403 /\ h_snap[h] # <<>>

\* C2: a request whose identity header is absent or empty is answered 403,
\* whatever the store holds and whatever loads have happened.
C2_MissingIdentityDenied ==
    \A h \in Handlers :
        (h_pc[h] = "done" /\ (h_dn[h] = None \/ h_dn[h] = <<>>))
            => h_resp[h][2] = 403

\* A request without identity answered while the store holds identities,
\* and one with an empty identity answered after a failed load.
C2_Witness ==
    \E g, h \in Handlers :
        /\ h_pc[g] = "done" /\ h_dn[g] = None /\ state_allowed # <<>>
        /\ h_pc[h] = "done" /\ h_dn[h] = <<>> /\ last_load = "error"

\* A step in which load_allowed_client_dn is called: by watch(), by
\* FileChangeHandler.__init__, or by on_modified.
LoadCallStep ==
    \/ w_pc = "load" /\ w_pc' = "wait"
    \/ use_watchdog /\ main_pc = "boot" /\ main_pc' = "serving"
    \/ events # <<>> /\ events' = Tail(events) /\ Triggers(Head(events))

\* C3: a load that fails (file missing, not readable, not decodable),
\* at setup or later, leaves state.allowed_client_subject_dn as it was.
C3_FailedLoadKeepsSnapshot ==
    [][(LoadCallStep /\ file.status # "ok") => state_allowed' = state_allowed]_vars

\* A load has failed while the store held identities.
C3_Witness == last_load = "error" /\ state_allowed # <<>>

\* C4: every list a handler has read is, in full, one of the lists that a
\* load installed (or the initial empty list).
C4_NoTornSnapshot == \A h \in Handlers : h_snap[h] \in ever_published

\* A handler still searches a list that has been replaced since, next to a
\* handler that searches the current one.
C4_Witness ==
    \E g, h \in Handlers :
        /\ h_pc[g] = "scan" /\ h_snap[g] # <<>> /\ h_snap[g] # state_allowed
        /\ h_pc[h] = "scan" /\ h_snap[h] # <<>> /\ h_snap[h] = state_allowed

\* C5: the list a handler reads is the one installed by the latest replace
\* completed at the instant of the read.  The read lies between the start
\* and the end of the call, so a call that starts after a replace decides
\* against that replace's list or a later one, and a call that ends before
\* a replace decides against an earlier one.
C5_ReadSeesLatestReplace ==
    [][\A h \in Handlers :
          (h_pc[h] = "read" /\ h_pc'[h] = "scan") => h_snap'[h] = published]_vars

\* A handler has read the list of the second replace.
C5_Witness ==
    \E h \in Handlers :
        /\ h_pc[h] = "scan" /\ h_snap[h] = published
        /\ Cardinality(ever_published) >= 3

\* The characters of s from i to j are one line of s without the white
\* space around it: no line break inside, no white space at either end,
\* and only blanks between it and the line breaks (or ends of s) around it.
IsTrimmedLine(s, i, j) ==
    /\ i <= j
    /\ s[i] \notin Whitespace /\ s[j] \notin Whitespace
    /\ \A k \in i..j : s[k] # "\n"
    /\ \E a \in 1..i :
          /\ a = 1 \/ s[a - 1] = "\n"
          /\ \A k \in a..(i - 1) : s[k] \in Whitespace \ {"\n"}
    /\ \E b \in j..Len(s) :
          /\ b = Len(s) \/ s[b + 1] = "\n"
          /\ \A k \in (j + 1)..b : s[k] \in Whitespace \ {"\n"}

TrimmedLines(s) ==
    {SubSeq(s, x[1], x[2]) :
        x \in {y \in (1..Len(s)) \X (1..Len(s)) : IsTrimmedLine(s, y[1], y[2])}}

\* C6: after a successful load the elements of the list are exactly the
\* lines of the file without their surrounding white space, the blank
\* lines left out, each line counted once.
C6_LoadYieldsTrimmedLines ==
    main_pc = "serving" => Range(state_allowed) = TrimmedLines(file.content)

\* A file with a repeated line, a blank line and an indented line.
C6_Witness ==
    /\ main_pc = "serving"
    /\ file.content = <<"a", "\n", "\n", " ", "a">>
    /\ state_allowed = << <<"a">>, <<"a">> >>

\* C7: every answer is "OK" with status 200 or "Forbidden" with status 403.
C7_TwoOutcomes ==
    \A h \in Handlers : h_pc[h] = "done" => h_resp[h] \in {OkResponse, Forbidden}

\* A request answered after a failed load while a reload is pending, and
\* one answered against an empty store.
C7_Witness ==
    \E g, h \in Handlers :
        /\ Answered(g) /\ last_load = "error" /\ w_pc = "load"
        /\ Answered(h) /\ h_snap[h] = <<>>

\* C8: a poll check that finds the file present after its text has changed
\* triggers a reload.
C8_PollDetectsEveryChange ==
    [][(w_pc = "stat" /\ w_pc' # "stat" /\ unseen_change /\ file.status = "ok")
          => w_pc' = "load"]_vars

\* C9: once the observer has handled every event, no change of the file's
\* text is left unloaded.
C9_ObserverLoadsEveryChange ==
    (use_watchdog /\ main_pc = "serving" /\ events = <<>> /\ file.status = "ok")
        => ~unseen_change

\* C10: while the file is as it was at startup, no handler reads the store
\* before the first load.
C10_LoadBeforeRequests ==
    \A h \in Handlers :
        (h_pc[h] \in {"scan", "done"} /\ h_dn[h] # None /\ h_dn[h] # <<>> /\ nwrites = 0)
            => last_load # "never"

\* C11: a load that finds the file with the list the store already holds
\* (the file as it was last loaded, its timestamp advanced or not) assigns
\* nothing: the store keeps its list, nothing is published and no "load"
\* message is logged.
C11_UnchangedFileNoReplace ==
    [][(LoadCallStep /\ file.status = "ok" /\ ParseFile(file.content) = state_allowed)
          => /\ state_allowed' = state_allowed
             /\ published' = published
             /\ ever_published' = ever_published
             /\ last_load' = "none"]_vars

\* The file was rewritten with the text it had and a later timestamp;
\* watch() reloaded it and assigned nothing.
C11_Witness ==
    /\ last_load = "none" /\ last_modified = 2 /\ nwrites > 0
    /\ file.content = InitialFile /\ state_allowed = ParseFile(InitialFile)
    /\ Cardinality(ever_published) = 2

C13_EmptyParseNotInstalled ==
    [][(LoadCallStep /\ file.status = "ok" /\ ParseFile(file.content) = <<>>
          /\ state_allowed # <<>>)
          => state_allowed' # <<>>]_vars

\* C14: once watch() runs, every check, whatever its outcome, leaves the
\* loop running: it is about to stat, to load or to wait.
C14_DetectorNeverStops ==
    (~use_watchdog /\ main_pc = "serving") => w_pc \in {"stat", "load", "wait"}

\* A step in which watch() makes one check: it leaves the try statement.
CheckStep == w_pc = "stat" /\ w_pc' # "stat"

\* C15: a check of watch() whose stat() fails calls no load and leaves
\* last_modified and the store as they were, so the next stat() that
\* succeeds is compared with the timestamp remembered before the failure.
C15_FailedStatChangesNothing ==
    [][(CheckStep /\ file.status \in {"missing", "stat_denied"})
          => /\ w_pc' # "load"
             /\ last_modified' = last_modified
             /\ state_allowed' = state_allowed
             /\ last_load' = last_load]_vars

\* The file is gone after it was loaded; the latest check did not find it
\* and watch() waits with the timestamp and the list of that load.
C15_Witness ==
    /\ w_pc = "wait" /\ last_check = "not found" /\ file.status = "missing"
    /\ last_modified = 1 /\ state_allowed = ParseFile(InitialFile)
    /\ last_load = "load"

DispatchStep == events # <<>> /\ events' = Tail(events)

\* The spellings of the path of the watched file.
NamesTarget(p) == p \in {TargetPath, AliasPath}

\* C17: a modification event whose path, made canonical, is the canonical
\* path of the watched file makes on_modified load the file; an event for
\* any other path calls no load and leaves the store as it was.
C17_ReloadIffTargetPath ==
    [][DispatchStep =>
        LET e == Head(events) IN
        /\ (e.kind = "FileModifiedEvent" /\ NamesTarget(e.src_path))
              => /\ ~unseen_change'
                 /\ file.status = "ok" => state_allowed' = ParseFile(file.content)
                 /\ file.status # "ok" => last_load' = "error"
        /\ ~NamesTarget(e.src_path)
              => /\ state_allowed' = state_allowed
                 /\ last_load' = last_load
                 /\ unseen_change' = unseen_change]_vars

\* An event has made the observer replace the list, and the next event
\* it takes is a modification of another file.
C17_Witness ==
    /\ use_watchdog /\ Cardinality(ever_published) >= 3
    /\ events # <<>>
    /\ Head(events).kind = "FileModifiedEvent"
    /\ Head(events).src_path = OtherPath

\* C18: under polling, once the file stays as it is and readable, the
\* store comes to hold the parse of that file, also when the load that
\* followed the stat() of this version of the file failed.  watch() at
\* rest with a remembered timestamp not below the file's loads nothing
\* more while the file stays as it is, so by then the store is to hold
\* the parse.  The case taken is the one the claim names: the latest load
\* failed and the file's text has not changed since.
C18_PollingConverges ==
    (/\ ~use_watchdog /\ w_pc = "wait" /\ last_check = "stat"
     /\ last_load = "error" /\ ~unseen_change
     /\ file.status = "ok" /\ last_modified >= file.mtime)
        => state_allowed = ParseFile(file.content)

\* C19: the store always holds the initial empty list or the whole parse
\* of the text the file had at a load, and every change of the store
\* installs the parse of the file as it is at that load, the loads being
\* made one after the other: the store follows the versions of the file
\* in their order and never goes back to the list of a version older
\* than one already installed.
C19_PublishedInFileOrder ==
    /\ [](state_allowed \in ever_published)
    /\ [][state_allowed' # state_allowed
            => /\ LoadCallStep
               /\ file.status = "ok"
               /\ state_allowed' = ParseFile(file.content)]_vars

\* The file was given another text and then its first text again; the
\* store holds the list of the first text, installed a second time.
C19_Witness ==
    /\ nwrites = 2 /\ last_load = "load"
    /\ file.content = InitialFile /\ state_allowed = ParseFile(InitialFile)
    /\ Cardinality(ever_published) = 3

====
